---------------------------- MODULE Spec2Model ----------------------------
(***************************************************************************)
(* A model of the one-shot channel of src/oneshot.rs: one Sender thread,   *)
(* one Receiver thread, the shared Inner cell (atomic state, mutex-guarded *)
(* slot, condition variable) and a wall clock for the bounded waits.       *)
(* Every step is one atomic operation of the code: a mutex acquisition, an *)
(* atomic load/store/compare-exchange, a condition-variable call.          *)
(***************************************************************************)
EXTENDS Integers, Sequences, FiniteSets, TLC

\* ------------------------------------------------------------------ bounds
MaxVal == 2        \* payload values are 1..MaxVal
MaxTime == 2       \* the clock runs over 0..MaxTime
MaxAttempts == 2   \* receive attempts made on the one Receiver
MaxFd == 9         \* file descriptors of a ReturnAddress::File are -1..MaxFd
MaxReply == 9      \* values handed to ReturnAddress::send are 0..MaxReply
MaxEvents == 4     \* events the window event loop delivers to its closure
MaxWindows == 2    \* windows one Context creates in its life
MaxCalls == 7      \* calls made on one StdinEventHandler before it is dropped

\* --------------------------------------------------------------- constants
NOT_READY == 0
FINISHED == 1
DISCONNECTED == 2

Values == 1..MaxVal
None == << >>
Some(v) == << v >>

BoundedOps == {"recv_timeout", "recv_deadline"}

VARIABLES
    state,      \* Inner.state: AtomicU8
    slot,       \* Inner.mutex's content: Option<T>
    mutex,      \* who holds Inner.mutex: "free", "S" (sender), "R" (receiver)
    spc,        \* the Sender thread's position
    sval,       \* the argument of send (None until send is called)
    rpc,        \* the Receiver thread's position
    rop,        \* the receive operation in progress ("none" between calls)
    deadline,   \* recv_deadline's argument
    waitUntil,  \* instant at which the current wait_timeout expires
    timedOut,   \* timeout_result.timed_out() of the wait that just ended
    waited,     \* the attempt in progress has waited on the condvar
    now,        \* the wall clock
    nAttempts,  \* receive attempts started
    startSent,  \* send had returned when the attempt in progress was called
    startDropped, \* a drop without send had completed when it was called
    startExpired, \* its deadline had already passed when it was called
    okCount,    \* receive attempts that returned Ok
    last,       \* what the most recent completed attempt returned
    ctx,        \* context.rs: the Context and the requests it has handled
    eloop,      \* task/render.rs: the window event loop
    stdin,      \* logic/msg/source/stdin.rs: the StdinEventHandler
    reply       \* logic/msg/mod.rs: a ReturnAddress and the outcome of send

chanVars == << state, slot, mutex, spc, sval, rpc, rop, deadline, waitUntil,
               timedOut, waited, now, nAttempts, startSent, startDropped,
               startExpired, okCount, last >>

appVars == << ctx, eloop, stdin, reply >>

vars == << chanVars, appVars >>

NoAttempt ==
    [op |-> "none", res |-> "none", val |-> None, sentAtStart |-> FALSE,
     okBefore |-> 0, stateAtRet |-> NOT_READY, waited |-> FALSE,
     prevOp |-> "none", prevRes |-> "none", prevSentAtStart |-> FALSE,
     droppedAtStart |-> FALSE, expiredAtStart |-> FALSE]

\* The application components before anything has happened to them.
NoContext ==
    [phase |-> "run", windows |-> << >>, gpu |-> FALSE, created |-> 0,
     replies |-> << >>, lastKind |-> "none", prevKind |-> "none"]
NoLoop ==
    [phase |-> "init", exit |-> FALSE, events |-> 0, logged |-> 0,
     lastKind |-> "none", prevKind |-> "none"]
NoStdin ==
    [phase |-> "none", raw_mode |-> FALSE, termRaw |-> FALSE,
     calls |-> << >>, warns |-> 0, ops |-> 0, lastOp |-> "none"]
NoReply ==
    [pc |-> "none", kind |-> "none", fd |-> None, rxAlive |-> FALSE,
     value |-> None, res |-> "none", errFd |-> None, delivered |-> None]

Init ==
    /\ state = NOT_READY
    /\ slot = None
    /\ mutex = "free"
    /\ spc = "idle"
    /\ sval = None
    /\ rpc = "idle"
    /\ rop = "none"
    /\ deadline = 0
    /\ waitUntil = 0
    /\ timedOut = FALSE
    /\ waited = FALSE
    /\ now = 0
    /\ nAttempts = 0
    /\ startSent = FALSE
    /\ startDropped = FALSE
    /\ startExpired = FALSE
    /\ okCount = 0
    /\ last = NoAttempt
    /\ ctx = NoContext
    /\ eloop = NoLoop
    /\ stdin = NoStdin
    /\ reply = NoReply

\* ------------------------------------------------------- pure code pieces

\* Faulty variant of internal_try_recv: the value is read but not taken.
TryRecvKeepsValue(st, sl) ==
    CASE st = FINISHED ->
           IF sl # None
           THEN [res |-> "Ok", val |-> sl, slot |-> sl]
           ELSE [res |-> "AlreadyRetrieved", val |-> None, slot |-> sl]
      [] st = DISCONNECTED -> [res |-> "Disconnected", val |-> None, slot |-> sl]
      [] st = NOT_READY -> [res |-> "NotReady", val |-> None, slot |-> sl]
      [] OTHER -> [res |-> "unreachable", val |-> None, slot |-> sl]

\* Receiver::internal_try_recv: the result and the slot it leaves.
internal_try_recv(st, sl) ==
    CASE st = FINISHED ->
           IF sl # None
           THEN [res |-> "Ok", val |-> sl, slot |-> None]
           ELSE [res |-> "AlreadyRetrieved", val |-> None, slot |-> sl]
      [] st = DISCONNECTED -> [res |-> "Disconnected", val |-> None, slot |-> sl]
      [] st = NOT_READY -> [res |-> "NotReady", val |-> None, slot |-> sl]
      [] OTHER -> [res |-> "unreachable", val |-> None, slot |-> sl]

\* Faulty variant of the drop: a plain store of DISCONNECTED.
DropStoresAlways(st) == DISCONNECTED

\* Faulty variant of the drop: the state is left as it is.
DropStoresNothing(st) == st

\* Drop for Sender: compare_exchange(NOT_READY, DISCONNECTED).
DropState(st) == IF st = NOT_READY THEN DISCONNECTED ELSE st

\* Sender::send: state.store(FINISHED).
SendState(st) == FINISHED

\* Faulty variant of the store into the slot: the value is not written.
ReplaceKeepsOld(sl, v) == sl

\* Sender::send: lock.replace(value).
Replace(sl, v) == v

\* Faulty variant of the notification: nobody is woken.
NotifyNobody(pc) == pc

\* Condvar::notify_all: a receiver blocked in wait/wait_timeout is woken.
notify_all(pc) == IF pc = "waiting" THEN "woken" ELSE pc

\* Faulty variant of the wait: the mutex stays held while blocked.
WaitKeepsLock(m) == m

\* Condvar::wait / wait_timeout release the mutex while blocked.
WaitRelease(m) == "free"

\* Faulty variants of the NotReady arm: a try_recv that waits like recv, and
\* a recv that returns like try_recv.
TryRecvWaits(op) ==
    IF op \in BoundedOps THEN "deadline" ELSE "wait"

RecvGivesUp(op) ==
    CASE op = "recv" -> "return"
      [] op = "try_recv" -> "return"
      [] OTHER -> "deadline"

\* What each receive operation does when internal_try_recv reports NotReady.
OnNotReady(op) ==
    CASE op = "recv" -> "wait"
      [] op = "try_recv" -> "return"
      [] OTHER -> "deadline"

\* recv_timeout: Instant::now() + timeout.
TimeoutDeadline(n, t) == n + t

\* Faulty variant of the duration: the whole deadline, not what is left of it.
WaitWholeDeadline(dl, n) == dl

\* recv_deadline: the duration handed to wait_timeout, deadline - now.
WaitDuration(dl, n) == dl - n

\* Faulty variant of the expiry test: a deadline equal to now is not passed.
ExpiredStrictly(n, dl) == n > dl

\* recv_deadline: now >= deadline.
Expired(n, dl) == n >= dl

\* recv_deadline after wait_timeout: give up when timed_out(), else loop.
AfterWaitTimeout(to) == IF to THEN "return" ELSE "check"

\* ------------------------------------------------------------ the Sender

SendCall(v) ==
    /\ spc = "idle"
    /\ spc' = "send_lock"
    /\ sval' = Some(v)
    /\ UNCHANGED << state, slot, mutex, rpc, rop, deadline, waitUntil,
                    timedOut, waited, now, nAttempts, startSent, okCount, last >>
    /\ UNCHANGED << startDropped, startExpired, appVars >>

SendLock ==
    /\ spc = "send_lock"
    /\ mutex = "free"
    /\ mutex' = "S"
    /\ spc' = "send_replace"
    /\ UNCHANGED << state, slot, sval, rpc, rop, deadline, waitUntil,
                    timedOut, waited, now, nAttempts, startSent, okCount, last >>
    /\ UNCHANGED << startDropped, startExpired, appVars >>

SendReplace ==
    /\ spc = "send_replace"
    /\ slot' = Replace(slot, sval)
    /\ spc' = "send_store"
    /\ UNCHANGED << state, mutex, sval, rpc, rop, deadline, waitUntil,
                    timedOut, waited, now, nAttempts, startSent, okCount, last >>
    /\ UNCHANGED << startDropped, startExpired, appVars >>

SendStore ==
    /\ spc = "send_store"
    /\ state' = SendState(state)
    /\ spc' = "send_notify"
    /\ UNCHANGED << slot, mutex, sval, rpc, rop, deadline, waitUntil,
                    timedOut, waited, now, nAttempts, startSent, okCount, last >>
    /\ UNCHANGED << startDropped, startExpired, appVars >>

SendNotify ==
    /\ spc = "send_notify"
    /\ rpc' = notify_all(rpc)
    /\ timedOut' = IF rpc' # rpc THEN FALSE ELSE timedOut
    /\ spc' = "send_unlock"
    /\ UNCHANGED << state, slot, mutex, sval, rop, deadline, waitUntil,
                    waited, now, nAttempts, startSent, okCount, last >>
    /\ UNCHANGED << startDropped, startExpired, appVars >>

\* The guard `lock` goes out of scope, then `self` is dropped.
SendUnlock ==
    /\ spc = "send_unlock"
    /\ mutex' = "free"
    /\ spc' = "drop_cas"
    /\ UNCHANGED << state, slot, sval, rpc, rop, deadline, waitUntil,
                    timedOut, waited, now, nAttempts, startSent, okCount, last >>
    /\ UNCHANGED << startDropped, startExpired, appVars >>

\* The Sender is dropped without send having been called.
SenderDropCall ==
    /\ spc = "idle"
    /\ spc' = "drop_cas"
    /\ UNCHANGED << state, slot, mutex, sval, rpc, rop, deadline, waitUntil,
                    timedOut, waited, now, nAttempts, startSent, okCount, last >>
    /\ UNCHANGED << startDropped, startExpired, appVars >>

DropCas ==
    /\ spc = "drop_cas"
    /\ state' = DropState(state)
    /\ spc' = "drop_notify"
    /\ UNCHANGED << slot, mutex, sval, rpc, rop, deadline, waitUntil,
                    timedOut, waited, now, nAttempts, startSent, okCount, last >>
    /\ UNCHANGED << startDropped, startExpired, appVars >>

DropNotify ==
    /\ spc = "drop_notify"
    /\ rpc' = notify_all(rpc)
    /\ timedOut' = IF rpc' # rpc THEN FALSE ELSE timedOut
    /\ spc' = "done"
    /\ UNCHANGED << state, slot, mutex, sval, rop, deadline, waitUntil,
                    waited, now, nAttempts, startSent, okCount, last >>
    /\ UNCHANGED << startDropped, startExpired, appVars >>

SendReturned == spc = "done" /\ sval # None

\* ---------------------------------------------------------- the Receiver

Call(op, dl) ==
    /\ rpc = "idle"
    /\ nAttempts < MaxAttempts
    /\ rop' = op
    /\ rpc' = "lock"
    /\ deadline' = dl
    /\ nAttempts' = nAttempts + 1
    /\ startSent' = SendReturned
    /\ startDropped' = (spc = "done" /\ sval = None)
    /\ startExpired' = (op \in BoundedOps /\ now >= dl)
    /\ waited' = FALSE
    /\ UNCHANGED << state, slot, mutex, spc, sval, waitUntil, timedOut, now,
                    okCount, last >>
    /\ UNCHANGED appVars

RecvCall == Call("recv", 0)

TryRecvCall == Call("try_recv", 0)

RecvTimeoutCall ==
    \E t \in 0..MaxTime :
        /\ TimeoutDeadline(now, t) <= MaxTime
        /\ Call("recv_timeout", TimeoutDeadline(now, t))

RecvDeadlineCall == \E dl \in 0..MaxTime : Call("recv_deadline", dl)

\* self.inner.mutex.lock().unwrap()
RecvLock ==
    /\ rpc = "lock"
    /\ mutex = "free"
    /\ mutex' = "R"
    /\ rpc' = "check"
    /\ UNCHANGED << state, slot, spc, sval, rop, deadline, waitUntil, timedOut,
                    waited, now, nAttempts, startSent, okCount, last >>
    /\ UNCHANGED << startDropped, startExpired, appVars >>

\* The attempt in progress returns r (with value v); the guard is released
\* and a recv, which takes self by value, drops the Receiver.
Return(r, v) ==
    /\ last' = [op |-> rop, res |-> r, val |-> v, sentAtStart |-> startSent,
                okBefore |-> okCount, stateAtRet |-> state, waited |-> waited,
                prevOp |-> last.op, prevRes |-> last.res,
                prevSentAtStart |-> last.sentAtStart,
                droppedAtStart |-> startDropped,
                expiredAtStart |-> startExpired]
    /\ okCount' = IF r = "Ok" THEN okCount + 1 ELSE okCount
    /\ rpc' = IF rop = "recv" THEN "dropped" ELSE "idle"
    /\ rop' = "none"
    /\ mutex' = "free"
    /\ waited' = FALSE
    /\ timedOut' = FALSE
    /\ deadline' = 0
    /\ waitUntil' = 0

\* internal_try_recv under the held lock, and the match on its result.
RecvCheck ==
    /\ rpc = "check"
    /\ LET r == internal_try_recv(state, slot) IN
         /\ slot' = r.slot
         /\ IF r.res = "NotReady" /\ OnNotReady(rop) # "return"
            THEN /\ rpc' = "notready"
                 /\ UNCHANGED << mutex, rop, waited, timedOut, deadline,
                                 waitUntil, okCount, last >>
            ELSE Return(r.res, r.val)
    /\ UNCHANGED << state, spc, sval, now, nAttempts, startSent >>
    /\ UNCHANGED << startDropped, startExpired, appVars >>

\* recv: lock = condvar.wait(lock)
RecvWait ==
    /\ rpc = "notready"
    /\ OnNotReady(rop) = "wait"
    /\ rpc' = "waiting"
    /\ mutex' = WaitRelease(mutex)
    /\ waited' = TRUE
    /\ UNCHANGED << state, slot, spc, sval, rop, deadline, waitUntil, timedOut,
                    now, nAttempts, startSent, okCount, last >>
    /\ UNCHANGED << startDropped, startExpired, appVars >>

\* Faulty variant of DeadlineCheck: giving up closes the channel.
DeadlineCheckCloses ==
    /\ rpc = "notready"
    /\ OnNotReady(rop) = "deadline"
    /\ IF Expired(now, deadline)
       THEN /\ Return("NotReady", None)
            /\ state' = DISCONNECTED
       ELSE /\ rpc' = "waiting"
            /\ mutex' = WaitRelease(mutex)
            /\ waitUntil' = now + WaitDuration(deadline, now)
            /\ waited' = TRUE
            /\ UNCHANGED << state, rop, timedOut, deadline, okCount, last >>
    /\ UNCHANGED << slot, spc, sval, now, nAttempts, startSent >>
    /\ UNCHANGED << startDropped, startExpired, appVars >>

\* recv_deadline: now >= deadline gives up, else wait_timeout(deadline - now)
DeadlineCheck ==
    /\ rpc = "notready"
    /\ OnNotReady(rop) = "deadline"
    /\ IF Expired(now, deadline)
       THEN Return("NotReady", None)
       ELSE /\ rpc' = "waiting"
            /\ mutex' = WaitRelease(mutex)
            /\ waitUntil' = now + WaitDuration(deadline, now)
            /\ waited' = TRUE
            /\ UNCHANGED << rop, timedOut, deadline, okCount, last >>
    /\ UNCHANGED << state, slot, spc, sval, now, nAttempts, startSent >>
    /\ UNCHANGED << startDropped, startExpired, appVars >>

\* wait_timeout's duration has elapsed.
WaitTimesOut ==
    /\ rpc = "waiting"
    /\ rop \in BoundedOps
    /\ now >= waitUntil
    /\ rpc' = "woken"
    /\ timedOut' = TRUE
    /\ UNCHANGED << state, slot, mutex, spc, sval, rop, deadline, waitUntil,
                    waited, now, nAttempts, startSent, okCount, last >>
    /\ UNCHANGED << startDropped, startExpired, appVars >>

\* Condvar waits may wake without a notification.
SpuriousWakeup ==
    /\ rpc = "waiting"
    /\ rpc' = "woken"
    /\ timedOut' = FALSE
    /\ UNCHANGED << state, slot, mutex, spc, sval, rop, deadline, waitUntil,
                    waited, now, nAttempts, startSent, okCount, last >>
    /\ UNCHANGED << startDropped, startExpired, appVars >>

\* The woken receiver re-acquires the mutex (it is still its own if the wait
\* never released it); a timed-out wait_timeout makes recv_deadline return
\* NotReady without looking at the state again.
WaitReturns ==
    /\ rpc = "woken"
    /\ mutex \in {"free", "R"}
    /\ IF rop \in BoundedOps /\ AfterWaitTimeout(timedOut) = "return"
       THEN Return("NotReady", None)
       ELSE /\ mutex' = "R"
            /\ rpc' = "check"
            /\ UNCHANGED << rop, waited, timedOut, deadline, waitUntil,
                            okCount, last >>
    /\ UNCHANGED << state, slot, spc, sval, now, nAttempts, startSent >>
    /\ UNCHANGED << startDropped, startExpired, appVars >>

\* The Receiver goes out of scope (it has no Drop impl of its own).
ReceiverDrop ==
    /\ rpc = "idle"
    /\ rpc' = "dropped"
    /\ UNCHANGED << state, slot, mutex, spc, sval, rop, deadline, waitUntil,
                    timedOut, waited, now, nAttempts, startSent, okCount, last >>
    /\ UNCHANGED << startDropped, startExpired, appVars >>

\* ------------------------------------------------------------- the clock

Tick ==
    /\ now < MaxTime
    /\ now' = now + 1
    /\ UNCHANGED << state, slot, mutex, spc, sval, rpc, rop, deadline,
                    waitUntil, timedOut, waited, nAttempts, startSent, okCount,
                    last >>
    /\ UNCHANGED << startDropped, startExpired, appVars >>

\* ------------------------------------------------------ the specification

SenderStep ==
    \/ SendLock
    \/ SendReplace
    \/ SendStore
    \/ SendNotify
    \/ SendUnlock
    \/ DropCas
    \/ DropNotify

ReceiverStep ==
    \/ RecvLock
    \/ RecvCheck
    \/ RecvWait
    \/ DeadlineCheck
    \/ WaitTimesOut
    \/ WaitReturns

Next ==
    \/ \E v \in Values : SendCall(v)
    \/ SenderDropCall
    \/ SenderStep
    \/ RecvCall
    \/ TryRecvCall
    \/ RecvTimeoutCall
    \/ RecvDeadlineCall
    \/ ReceiverStep
    \/ SpuriousWakeup
    \/ ReceiverDrop
    \/ Tick

Spec == Init /\ [][Next]_vars

\* Both threads are scheduled fairly once inside a call, a sender blocked in
\* mutex.lock() gets the mutex if it is released again and again, and time
\* passes; nobody is obliged to call send, drop or a receive operation, and
\* a condition variable is not obliged to wake spuriously.
FairSpec ==
    /\ Spec
    /\ WF_vars(SenderStep)
    /\ SF_vars(SendLock)
    /\ WF_vars(ReceiverStep)
    /\ WF_vars(Tick)

\* ------------------------------------------- ReturnAddress (logic/msg/mod.rs)

Fds == -1..MaxFd
Replies == 0..MaxReply

\* Msg::open: a ReturnAddress::Memory around a oneshot Sender whose
\* Receiver is alive.
MsgOpen ==
    /\ reply.pc = "none"
    /\ reply' = [reply EXCEPT !.pc = "built", !.kind = "Memory",
                              !.rxAlive = TRUE]
    /\ UNCHANGED << chanVars, ctx, eloop, stdin >>

\* From<RawFd> for ReturnAddress: a ReturnAddress::File.
FromRawFd(f) ==
    /\ reply.pc = "none"
    /\ reply' = [reply EXCEPT !.pc = "built", !.kind = "File", !.fd = Some(f)]
    /\ UNCHANGED << chanVars, ctx, eloop, stdin >>

\* The requester drops the Receiver of the in-memory channel before the
\* reply is sent, after which the channel's send fails.
ReplyReceiverDrop ==
    /\ reply.pc = "built"
    /\ reply.kind = "Memory"
    /\ reply.rxAlive
    /\ reply' = [reply EXCEPT !.rxAlive = FALSE]
    /\ UNCHANGED << chanVars, ctx, eloop, stdin >>

\* Faulty variant of ReturnAddress::send: the File arm reports success.
ReturnAddressSendFileOk(r, v) ==
    CASE r.kind = "Memory" ->
           IF r.rxAlive
           THEN [res |-> "Ok", errFd |-> None, delivered |-> Some(v)]
           ELSE [res |-> "SenderError", errFd |-> None, delivered |-> None]
      [] OTHER -> [res |-> "Ok", errFd |-> None, delivered |-> None]

\* ReturnAddress::send: the result, the descriptor the error names and what
\* the in-memory channel holds afterwards.
ReturnAddressSend(r, v) ==
    CASE r.kind = "Memory" ->
           IF r.rxAlive
           THEN [res |-> "Ok", errFd |-> None, delivered |-> Some(v)]
           ELSE [res |-> "SenderError", errFd |-> None, delivered |-> None]
      [] OTHER -> [res |-> "FileError", errFd |-> r.fd, delivered |-> None]

SendReply(v) ==
    /\ reply.pc = "built"
    /\ LET out == ReturnAddressSend(reply, v) IN
         reply' = [reply EXCEPT !.pc = "sent", !.value = Some(v),
                                !.res = out.res, !.errFd = out.errFd,
                                !.delivered = out.delivered]
    /\ UNCHANGED << chanVars, ctx, eloop, stdin >>

ReplyNext ==
    \/ MsgOpen
    \/ \E f \in Fds : FromRawFd(f)
    \/ ReplyReceiverDrop
    \/ \E v \in Replies : SendReply(v)

ReplySpec == Init /\ [][ReplyNext]_vars

\* ------------------------------------------- window event loop (task/render.rs)

\* What one event is to the closure: not convertible to a message, handled
\* with Ok, handled with a non-fatal error, handled with a fatal error.
EventKinds == {"NotMsg", "Ok", "Err", "FatalErr"}

\* if let Err(e) = res { log::error!(..) }
LogsError(kind) == kind \in {"Err", "FatalErr"}

\* Faulty variant of RequestsExit: every error ends the loop.
ExitOnAnyError(kind) == kind \in {"Err", "FatalErr"}

\* if e.current_context().is_fatal() { elwt.exit() }
RequestsExit(kind) == kind = "FatalErr"

\* eloop.run(closure): the loop starts delivering events.
LoopRun ==
    /\ eloop.phase = "init"
    /\ eloop' = [eloop EXCEPT !.phase = "running"]
    /\ UNCHANGED << chanVars, ctx, stdin, reply >>

\* One call of the closure.
HandleEvent(kind) ==
    /\ eloop.phase = "running"
    /\ eloop.events < MaxEvents
    /\ eloop' = [eloop EXCEPT
                   !.events = @ + 1,
                   !.logged = IF kind # "NotMsg" /\ LogsError(kind)
                              THEN @ + 1 ELSE @,
                   !.exit = @ \/ (kind # "NotMsg" /\ RequestsExit(kind)),
                   !.prevKind = eloop.lastKind,
                   !.lastKind = kind]
    /\ UNCHANGED << chanVars, ctx, stdin, reply >>

\* eloop.run returns Ok once exit was requested: "Event Loop Ended."
LoopEnd ==
    /\ eloop.phase = "running"
    /\ eloop.exit
    /\ eloop' = [eloop EXCEPT !.phase = "ended"]
    /\ UNCHANGED << chanVars, ctx, stdin, reply >>

\* eloop.run returns an error of its own: window() returns WindowError.
LoopFail ==
    /\ eloop.phase = "running"
    /\ eloop' = [eloop EXCEPT !.phase = "failed"]
    /\ UNCHANGED << chanVars, ctx, stdin, reply >>

LoopNext ==
    \/ LoopRun
    \/ \E kind \in EventKinds : HandleEvent(kind)
    \/ LoopEnd
    \/ LoopFail

LoopSpec == Init /\ [][LoopNext]_vars

\* ------------------------------- StdinEventHandler (logic/msg/source/stdin.rs)

\* Faulty variant of enter_raw: enables raw mode without looking at the flag.
EnterRawUnguarded(t) ==
    [t EXCEPT !.calls = Append(@, "enable"), !.termRaw = TRUE,
              !.raw_mode = TRUE]

\* TerminalState::enter_raw
enter_raw(t) ==
    IF ~t.raw_mode
    THEN [t EXCEPT !.calls = Append(@, "enable"), !.termRaw = TRUE,
                   !.raw_mode = TRUE]
    ELSE [t EXCEPT !.warns = @ + 1]

\* TerminalState::leave_raw
leave_raw(t) ==
    IF t.raw_mode
    THEN [t EXCEPT !.calls = Append(@, "disable"), !.termRaw = FALSE,
                   !.raw_mode = FALSE]
    ELSE [t EXCEPT !.warns = @ + 1]

\* StdinEventHandler::exit
exit(t) == leave_raw(t)

\* StdinEventHandler::new
StdinNew ==
    /\ stdin.phase = "none"
    /\ stdin' = [enter_raw(stdin) EXCEPT !.phase = "live", !.lastOp = "new"]
    /\ UNCHANGED << chanVars, ctx, eloop, reply >>

\* StdinEventHandler::default (derived): the flag is false, nothing is called.
StdinDefault ==
    /\ stdin.phase = "none"
    /\ stdin' = [stdin EXCEPT !.phase = "live", !.lastOp = "default"]
    /\ UNCHANGED << chanVars, ctx, eloop, reply >>

EnterRawCall ==
    /\ stdin.phase = "live"
    /\ stdin.ops < MaxCalls
    /\ stdin' = [enter_raw(stdin) EXCEPT !.ops = @ + 1, !.lastOp = "enter_raw"]
    /\ UNCHANGED << chanVars, ctx, eloop, reply >>

LeaveRawCall ==
    /\ stdin.phase = "live"
    /\ stdin.ops < MaxCalls
    /\ stdin' = [leave_raw(stdin) EXCEPT !.ops = @ + 1, !.lastOp = "leave_raw"]
    /\ UNCHANGED << chanVars, ctx, eloop, reply >>

ExitCall ==
    /\ stdin.phase = "live"
    /\ stdin.ops < MaxCalls
    /\ stdin' = [exit(stdin) EXCEPT !.ops = @ + 1, !.lastOp = "exit"]
    /\ UNCHANGED << chanVars, ctx, eloop, reply >>

\* Drop for StdinEventHandler
StdinDrop ==
    /\ stdin.phase = "live"
    /\ stdin' = [exit(stdin) EXCEPT !.phase = "dropped", !.lastOp = "drop"]
    /\ UNCHANGED << chanVars, ctx, eloop, reply >>

StdinNext ==
    \/ StdinNew
    \/ StdinDefault
    \/ EnterRawCall
    \/ LeaveRawCall
    \/ ExitCall
    \/ StdinDrop

StdinSpec == Init /\ [][StdinNext]_vars

\* ------------------------------------------------------- Context (context.rs)

\* Window ids a request may name: those of the windows created and one more.
WindowIds == 1..(MaxWindows + 1)

\* Where handling an OpenWindow may fail: window.build, GpuContext::new,
\* res.send.
Outcomes == {"ok", "build_err", "gpu_err", "send_err"}

\* What image::open yields for the path of a ShowImage.
Images == {"Rgb8", "other", "unreadable"}

OpenWindowReqs == {[kind |-> "OpenWindow", outcome |-> o] : o \in Outcomes}

CloseWindowReqs == {[kind |-> "CloseWindow", window_id |-> i] : i \in WindowIds}

ShowImageReqs ==
    {[kind |-> "ShowImage", window_id |-> i, img |-> g] :
        i \in WindowIds, g \in Images}

ResizeReqs ==
    {[kind |-> "Resize", window_id |-> i, x |-> x, y |-> y] :
        i \in WindowIds, x \in {0, 1}, y \in {0, 1}}

RedrawReqs == {[kind |-> "Redraw", window_id |-> i] : i \in WindowIds}

ExitReqs == {[kind |-> "Exit"]}

FlatRequests ==
    OpenWindowReqs \cup CloseWindowReqs \cup ShowImageReqs \cup ResizeReqs
        \cup RedrawReqs \cup ExitReqs

\* The requests a Multiple is built from here: one of each kind and id.
Parts ==
    {r \in FlatRequests :
        /\ r.kind = "OpenWindow" => r.outcome = "ok"
        /\ r.kind = "ShowImage" => r.img = "Rgb8"
        /\ r.kind = "Resize" => r.x = 1 /\ r.y = 1}

MultipleReqs ==
    {[kind |-> "Multiple", reqs |-> q] :
        q \in {<< >>} \cup {<< a >> : a \in Parts}
                \cup {<< a, b >> : a \in Parts, b \in Parts}}

Requests == FlatRequests \cup MultipleReqs

WindowIdsOf(ws) == [i \in 1..Len(ws) |-> ws[i].id]

\* Context::index_from_id: the position (from 0) of the first window with
\* that id.
index_from_id(ws, window_id) ==
    IF \E i \in 1..Len(ws) : ws[i].id = window_id
    THEN Some((CHOOSE i \in 1..Len(ws) :
                  /\ ws[i].id = window_id
                  /\ \A j \in 1..(i - 1) : ws[j].id # window_id) - 1)
    ELSE None

\* Option::unwrap_or
unwrap_or(o, d) == IF o = None THEN d ELSE o[1]

\* Vec::remove(idx), idx < len
VecRemove(ws, idx) ==
    [i \in 1..(Len(ws) - 1) |-> IF i <= idx THEN ws[i] ELSE ws[i + 1]]

\* A panic unwinds the thread that owns the Context.
Panic(c) == [c EXCEPT !.phase = "panicked"]

\* Faulty variant of create_window: the id is returned, the window is not
\* kept.
CreateWindowNoPush(c, outcome) ==
    IF outcome = "build_err" \/ (~c.gpu /\ outcome = "gpu_err")
    THEN [c |-> c, res |-> "Err", id |-> 0]
    ELSE [c |-> [c EXCEPT !.gpu = TRUE, !.created = @ + 1],
          res |-> "Ok", id |-> c.created + 1]

\* Faulty variant of create_window: the GPU context taken out of the cell is
\* not put back.
CreateWindowLosesGpu(c, outcome) ==
    IF outcome = "build_err" \/ (~c.gpu /\ outcome = "gpu_err")
    THEN [c |-> c, res |-> "Err", id |-> 0]
    ELSE [c |-> [c EXCEPT
                   !.windows = Append(@, [id |-> c.created + 1,
                                          image |-> FALSE]),
                   !.gpu = FALSE, !.created = @ + 1],
          res |-> "Ok", id |-> c.created + 1]

\* Context::create_window: Err leaves the Context as it was (the two ?
\* precede every change; GpuContext::new runs only with the cell empty);
\* Ok pushes the window, fills the cell and returns the new window's id.
create_window(c, outcome) ==
    IF outcome = "build_err" \/ (~c.gpu /\ outcome = "gpu_err")
    THEN [c |-> c, res |-> "Err", id |-> 0]
    ELSE [c |-> [c EXCEPT
                   !.windows = Append(@, [id |-> c.created + 1,
                                          image |-> FALSE]),
                   !.gpu = TRUE, !.created = @ + 1],
          res |-> "Ok", id |-> c.created + 1]

\* Request::OpenWindow
OpenWindow(c, req) ==
    LET cw == create_window(c, req.outcome) IN
      IF cw.res = "Err" THEN Panic(c)
      ELSE LET sent == [cw.c EXCEPT !.replies =
                          Append(@, [id |-> cw.id,
                                     windows |-> WindowIdsOf(cw.c.windows),
                                     ok |-> req.outcome # "send_err"])]
           IN IF req.outcome = "send_err" THEN Panic(sent) ELSE sent

\* Request::CloseWindow
CloseWindow(c, req) ==
    LET idx == unwrap_or(index_from_id(c.windows, req.window_id), 0) IN
      IF idx >= Len(c.windows) THEN Panic(c)
      ELSE [c EXCEPT !.windows = VecRemove(@, idx)]

\* Request::ShowImage
ShowImage(c, req) ==
    IF ~c.gpu \/ c.windows = << >> THEN c
    ELSE IF req.img # "Rgb8" THEN Panic(c)
    ELSE LET idx == index_from_id(c.windows, req.window_id) IN
           IF idx = None THEN Panic(c)
           ELSE [c EXCEPT !.windows[idx[1] + 1].image = TRUE]

\* Request::Resize, Context::resize_window
Resize(c, req) ==
    IF req.x > 0 /\ req.y > 0
    THEN IF index_from_id(c.windows, req.window_id) = None \/ ~c.gpu
         THEN Panic(c) ELSE c
    ELSE c

\* Request::Redraw, Context::render_window
Redraw(c, req) ==
    IF index_from_id(c.windows, req.window_id) = None THEN Panic(c) ELSE c

\* Request::Exit
Exit(c) == [c EXCEPT !.phase = "exited"]

RECURSIVE handle_request(_, _)
RECURSIVE handle_all(_, _)

\* Request::Multiple: for req in reqs { self.handle_request(req, ..) }
handle_all(c, reqs) ==
    IF reqs = << >> THEN c
    ELSE handle_all(handle_request(c, Head(reqs)), Tail(reqs))

\* Context::handle_request; nothing runs after a panic or the exit.
handle_request(c, req) ==
    IF c.phase # "run" THEN c
    ELSE CASE req.kind = "Multiple" -> handle_all(c, req.reqs)
           [] req.kind = "ShowImage" -> ShowImage(c, req)
           [] req.kind = "Exit" -> Exit(c)
           [] req.kind = "Resize" -> Resize(c, req)
           [] req.kind = "Redraw" -> Redraw(c, req)
           [] req.kind = "OpenWindow" -> OpenWindow(c, req)
           [] req.kind = "CloseWindow" -> CloseWindow(c, req)

HandleRequest(req) ==
    /\ ctx.phase = "run"
    /\ LET c == handle_request(ctx, req) IN
         /\ c.created <= MaxWindows
         /\ ctx' = [c EXCEPT !.lastKind = req.kind, !.prevKind = ctx.lastKind]
    /\ UNCHANGED << chanVars, eloop, stdin, reply >>

CtxNext == \E req \in Requests : HandleRequest(req)

CtxSpec == Init /\ [][CtxNext]_vars

\* ----------------------------------------------------------------- claims

\* C1: exactly-once delivery. At most one receive attempt returns Ok and it
\* returns the value that was sent; an attempt called after send has returned
\* gives Ok(v) if no earlier attempt did, and AlreadyRetrieved otherwise.
C1_ExactlyOnce ==
    /\ okCount <= 1
    /\ (last.res = "Ok" => sval # None /\ last.val = sval)
    /\ (last.sentAtStart /\ last.okBefore = 0 =>
            last.res = "Ok" /\ last.val = sval)
    /\ (last.sentAtStart /\ last.okBefore > 0 =>
            last.res = "AlreadyRetrieved")

C1_Witness ==
    /\ last.sentAtStart /\ last.res = "AlreadyRetrieved"
    /\ last.prevSentAtStart /\ last.prevRes = "Ok"

\* C2: the Sender is dropped without sending while a blocking recv is in
\* progress (before, between its state check and its wait, or during the
\* wait): recv eventually returns Disconnected.
C2_DisconnectVisible ==
    (rop = "recv" /\ sval = None /\ spc \in {"drop_cas", "drop_notify", "done"})
        ~> (last.op = "recv" /\ last.res = "Disconnected")

\* C3: no lost wakeup on send. send(v) is called while a recv is in progress
\* (about to lock or check, or waiting): recv eventually returns Ok(v).
C3_NoLostWakeup ==
    (spc = "send_lock" /\ rop = "recv")
        ~> (last.op = "recv" /\ last.res = "Ok" /\ last.val = sval)

C3_Witness ==
    last.op = "recv" /\ last.waited /\ last.res = "Ok" /\ last.val = sval

\* C4: the state changes at most once, NotReady -> Finished by send's store
\* or NotReady -> Disconnected by the drop of a Sender that never sent; the
\* drop that follows a completed send leaves Finished, the state is one of the
\* three defined values and the unreachable branch is never taken.
C4_StateChangesOnce ==
    /\ [](state \in {NOT_READY, FINISHED, DISCONNECTED})
    /\ [](last.res # "unreachable")
    /\ [](SendReturned => state = FINISHED)
    /\ [][state' # state =>
            /\ state = NOT_READY
            /\ \/ state' = FINISHED /\ spc = "send_store"
               \/ state' = DISCONNECTED /\ spc = "drop_cas" /\ sval = None]_vars

C4_Witness == SendReturned /\ state = FINISHED

\* C5 as stated: in every reachable state the slot is non-empty if and only
\* if the state is Finished and no receive attempt has extracted the value.
C5_SlotIffFinished ==
    (slot # None) <=> (state = FINISHED /\ okCount = 0)

\* C5 as amended: the same, in every state except the one inside send's
\* critical section between the store into the slot and the store of Finished.
C5_SlotIffFinishedOutsideSend ==
    spc # "send_store" => ((slot # None) <=> (state = FINISHED /\ okCount = 0))

C5_Witness ==
    slot # None /\ state = FINISHED /\ okCount = 0 /\ mutex = "R"

\* C6: timeout non-consumption. No step of a bounded receive changes the
\* state, and none changes the slot except the one that returns Ok; and the
\* attempt that follows a bounded receive's NotReady, called after send has
\* returned, returns Ok(v).
C6_TimeoutNonConsumption ==
    /\ [][(spc' = spc /\ now' = now /\ rop \in BoundedOps) =>
            /\ state' = state
            /\ (slot' # slot => rop' = "none" /\ last'.res = "Ok")]_vars
    /\ [](last.prevOp \in BoundedOps /\ last.prevRes = "NotReady"
            /\ last.sentAtStart => last.res = "Ok" /\ last.val = sval)

C6_Witness ==
    /\ last.prevOp \in BoundedOps /\ last.prevRes = "NotReady"
    /\ last.sentAtStart /\ last.res = "Ok"

\* C7: whenever a bounded receive returns NotReady, the state at the moment
\* it returns is still NotReady.
C7_NotReadyMeansNotReady ==
    (last.op \in BoundedOps /\ last.res = "NotReady") =>
        last.stateAtRet = NOT_READY

\* C8: try_recv never blocks. It never waits on the condition variable, its
\* result is the one of the state it finds (NotReady; the value or
\* AlreadyRetrieved; Disconnected), and it returns even if the Sender never
\* sends and is never dropped.
C8_TryRecvNeverBlocks ==
    /\ [](rop = "try_recv" => rpc \in {"lock", "check"})
    /\ [](last.op = "try_recv" =>
            /\ ~last.waited
            /\ (last.stateAtRet = NOT_READY => last.res = "NotReady")
            /\ (last.stateAtRet = FINISHED =>
                    last.res \in {"Ok", "AlreadyRetrieved"})
            /\ (last.stateAtRet = DISCONNECTED => last.res = "Disconnected"))
    /\ ((rop = "try_recv") ~> (rop = "none"))

C8_Witness ==
    last.op = "try_recv" /\ last.res = "NotReady" /\ spc = "idle"

\* C9: a blocking recv returns only in a terminal state: never NotReady, Ok
\* or AlreadyRetrieved exactly when the state is Finished, Disconnected
\* exactly when the state is Disconnected.
C9_RecvReturnsTerminal ==
    last.op = "recv" =>
        /\ last.res \in {"Ok", "AlreadyRetrieved", "Disconnected"}
        /\ last.stateAtRet # NOT_READY
        /\ (last.res \in {"Ok", "AlreadyRetrieved"} <=> last.stateAtRet = FINISHED)
        /\ (last.res = "Disconnected" <=> last.stateAtRet = DISCONNECTED)

C9_Witness ==
    last.op = "recv" /\ last.waited /\ last.res = "Disconnected"

\* C10: send always completes, whatever the Receiver is doing: once called it
\* acquires the lock, stores v, sets Finished and returns.
C10_SendCompletes ==
    /\ [](spc \in {"send_notify", "send_unlock"} \/ SendReturned =>
            state = FINISHED /\ (slot = sval \/ okCount = 1))
    /\ (spc = "send_lock") ~> (SendReturned /\ state = FINISHED)

C10_Witness ==
    SendReturned /\ rpc = "dropped" /\ nAttempts = 0 /\ slot = sval

\* C12: Disconnected is immediate and sticky once the drop has completed.
\* Every receive attempt of any variant that is called after the Sender's
\* drop without send has completed returns Disconnected and never waits on
\* the condition variable, however many attempts were made before it.
C12_DisconnectedSticky ==
    last.droppedAtStart => last.res = "Disconnected" /\ ~last.waited

C12_Witness ==
    /\ last.droppedAtStart /\ last.res = "Disconnected"
    /\ last.prevRes = "Disconnected" /\ nAttempts = MaxAttempts

\* C13: AlreadyRetrieved is never spurious. An attempt returns
\* AlreadyRetrieved only if an earlier attempt returned Ok, and a receiver
\* about to check a Finished channel from which nothing has been extracted
\* finds the sent value in the slot.
C13_AlreadyRetrievedNotSpurious ==
    /\ (last.res = "AlreadyRetrieved" => last.okBefore >= 1 /\ okCount = 1)
    /\ (rpc = "check" /\ state = FINISHED /\ okCount = 0 =>
            slot # None /\ slot = sval)

C13_Witness ==
    rpc = "check" /\ state = FINISHED /\ okCount = 0 /\ waited /\ spc = "drop_cas"

\* C14: a bounded receive always terminates. Every wait of recv_deadline or
\* recv_timeout ends at the absolute deadline of the call, also when it is
\* started again after a wakeup; NotReady is returned only once the deadline
\* has passed; and the call returns whatever the Sender does.
C14_BoundedReceiveTerminates ==
    /\ [](rpc = "waiting" /\ rop \in BoundedOps =>
            waitUntil = deadline /\ waited)
    /\ [][(rop \in BoundedOps /\ rop' = "none" /\ last'.res = "NotReady") =>
            (now >= deadline)]_vars
    /\ [][(rop \in BoundedOps /\ rpc # "waiting" /\ rpc' = "waiting") =>
            (now < deadline /\ waitUntil' = deadline)]_vars
    /\ ((rop \in BoundedOps) ~> (rop = "none"))

C14_Witness ==
    /\ last.op \in BoundedOps /\ last.waited /\ last.res = "NotReady"
    /\ spc = "idle"

\* C17: recv_deadline with a deadline that has passed behaves like try_recv.
\* Its check under the lock leaves the slot and gives the result that
\* try_recv's check gives in the same state and slot, a NotReady check is
\* followed by the return of NotReady with state and slot untouched, and no
\* wait on the condition variable is started.
C17_ExpiredDeadlineIsTryRecv ==
    /\ [](last.op = "recv_deadline" /\ last.expiredAtStart => ~last.waited)
    /\ [][(rop \in BoundedOps /\ now >= deadline /\ rpc # "waiting") =>
            (rpc' # "waiting")]_vars
    /\ [][(rpc = "check" /\ rpc' # rpc
             /\ (rop = "try_recv" \/ (rop = "recv_deadline" /\ now >= deadline))) =>
            LET r == internal_try_recv(state, slot) IN
              /\ slot' = r.slot
              /\ state' = state
              /\ IF r.res = "NotReady" /\ rop = "recv_deadline"
                 THEN rpc' = "notready"
                 ELSE (rop' = "none" /\ last'.res = r.res
                         /\ last'.val = r.val)]_vars
    /\ [][(rpc = "notready" /\ rpc' # rpc
             /\ rop = "recv_deadline" /\ now >= deadline) =>
            /\ rop' = "none" /\ last'.res = "NotReady" /\ last'.val = None
            /\ (slot' = slot /\ state' = state)]_vars

C17_Witness ==
    /\ last.op = "recv_deadline" /\ last.expiredAtStart
    /\ last.res = "Ok" /\ last.prevOp = "recv_deadline"
    /\ last.prevRes = "NotReady"

\* C11: reply routing. ReturnAddress::send on a file-descriptor target
\* returns the error naming that descriptor and delivers nothing, whatever
\* the value and the descriptor; only the in-memory target delivers, and Ok
\* is returned only when the channel's send succeeded and holds the value.
C11_ReplyRouting ==
    reply.pc = "sent" =>
        /\ (reply.kind = "File" =>
               /\ reply.res = "FileError"
               /\ reply.errFd = reply.fd
               /\ reply.delivered = None)
        /\ (reply.delivered # None =>
               reply.kind = "Memory" /\ reply.delivered = reply.value)
        /\ (reply.res = "Ok" =>
               /\ reply.kind = "Memory"
               /\ reply.rxAlive
               /\ reply.delivered = reply.value)

C11_Witness ==
    /\ reply.pc = "sent" /\ reply.kind = "File" /\ reply.fd = Some(MaxFd)
    /\ reply.res = "FileError" /\ reply.value = Some(MaxReply)

\* C16: in the window event loop an error returned by handling an event is
\* logged, and the closure requests the loop's exit in that call if and only
\* if the error is fatal; a non-fatal error leaves the loop running with no
\* exit requested, so that the events that follow are still handled, and the
\* loop ends normally only after an exit request.
C16_ExitIffFatal ==
    /\ [][(eloop'.events = eloop.events + 1) =>
            LET k == eloop'.lastKind IN
              /\ eloop'.logged =
                    eloop.logged + (IF k \in {"Err", "FatalErr"} THEN 1 ELSE 0)
              /\ (eloop'.exit # eloop.exit) <=> (k = "FatalErr" /\ ~eloop.exit)
              /\ (k = "FatalErr" => eloop'.exit)
              /\ (k = "Err" => (eloop'.phase = "running"))]_vars
    /\ [](eloop.phase = "ended" => eloop.exit)
    /\ [](eloop.phase = "running" /\ eloop.lastKind = "Err"
            /\ eloop.events < MaxEvents
            => ENABLED (\E kind \in EventKinds : HandleEvent(kind)))

C16_Witness ==
    /\ eloop.prevKind = "Err" /\ eloop.lastKind = "FatalErr"
    /\ eloop.exit /\ eloop.logged = 2 /\ eloop.events = 3
    /\ eloop.phase = "ended"

\* C20: for every sequence of enter_raw, leave_raw and exit calls on a
\* StdinEventHandler, ended by its drop, the calls that really enable and
\* disable the terminal's raw mode alternate strictly, starting with an
\* enable; the raw_mode flag equals the mode last set; raw mode is off once
\* the handler has been dropped.
C20_RawModeAlternates ==
    /\ \A i \in 1..Len(stdin.calls) :
          stdin.calls[i] = IF i % 2 = 1 THEN "enable" ELSE "disable"
    /\ stdin.raw_mode =
          (stdin.calls # << >> /\ stdin.calls[Len(stdin.calls)] = "enable")
    /\ stdin.raw_mode = stdin.termRaw
    /\ (stdin.phase = "dropped" => ~stdin.termRaw /\ ~stdin.raw_mode)

C20_Witness ==
    /\ stdin.phase = "dropped" /\ Len(stdin.calls) = 4
    /\ stdin.warns >= 2 /\ stdin.lastOp = "drop"

\* C15 (as stated): handling an OpenWindow request sends exactly one reply,
\* carrying the created window's id, and sends it only after that window has
\* been added to the window list.
C15_OpenWindowReplies ==
    [][\A req \in OpenWindowReqs : HandleRequest(req) =>
          /\ Len(ctx'.replies) = Len(ctx.replies) + 1
          /\ LET r == ctx'.replies[Len(ctx'.replies)] IN
               /\ r.id = ctx'.created
               /\ \E i \in 1..Len(r.windows) : r.windows[i] = r.id]_vars

\* C15 (amended): handling an OpenWindow request whose window creation
\* succeeds calls send on the reply channel exactly once, with the created
\* window's id, and only after that window has been added to the window
\* list; when the creation fails the handler panics, sends no reply and adds
\* no window. Every reply ever sent is for a window of its own that was in
\* the list when the reply was sent.
C15_OpenWindowRepliesWhenCreated ==
    /\ [][\A req \in OpenWindowReqs : HandleRequest(req) =>
            IF ctx'.created = ctx.created + 1
            THEN /\ Len(ctx'.replies) = Len(ctx.replies) + 1
                 /\ LET r == ctx'.replies[Len(ctx'.replies)] IN
                      /\ r.id = ctx'.created
                      /\ r.windows # << >>
                      /\ r.windows[Len(r.windows)] = r.id
                      /\ r.windows = WindowIdsOf(ctx'.windows)
                      /\ (ctx'.phase = "run" <=> r.ok)
            ELSE /\ ctx'.replies = ctx.replies
                 /\ ctx'.windows = ctx.windows
                 /\ ctx'.phase = "panicked"]_vars
    /\ [](/\ Len(ctx.replies) = ctx.created
          /\ \A k \in 1..Len(ctx.replies) :
                /\ ctx.replies[k].id = k
                /\ \E i \in 1..Len(ctx.replies[k].windows) :
                      ctx.replies[k].windows[i] = k)

C15_Witness ==
    /\ ctx.lastKind = "OpenWindow" /\ ctx.phase = "run"
    /\ ctx.created = MaxWindows /\ Len(ctx.replies) = MaxWindows
    /\ ctx.replies[MaxWindows].id = MaxWindows
    /\ ctx.replies[MaxWindows].ok
    /\ Len(ctx.windows) = MaxWindows

\* C18: handling CloseWindow removes exactly the window with the requested
\* id; when no window has that id (an empty list included) the list is left
\* as it was and the handling completes without a panic.
C18_CloseRemovesRequested ==
    [][\A req \in CloseWindowReqs : HandleRequest(req) =>
          /\ ctx'.phase = "run"
          /\ ctx'.windows =
                SelectSeq(ctx.windows, LAMBDA w : w.id # req.window_id)]_vars

\* C19: after any sequence of handled requests, a non-empty window list
\* means the GPU context is initialised; once initialised it stays so after
\* every later request; a ShowImage handled before any window exists
\* changes nothing.
C19_GpuWhileWindows ==
    /\ [](ctx.windows # << >> => ctx.gpu)
    /\ [][ctx.gpu => ctx'.gpu]_vars
    /\ [][\A req \in ShowImageReqs :
            (ctx.windows = << >> /\ HandleRequest(req)) =>
                /\ ctx'.windows = ctx.windows
                /\ ctx'.gpu = ctx.gpu
                /\ ctx'.created = ctx.created
                /\ ctx'.replies = ctx.replies
                /\ ctx'.phase = "run"]_vars

C19_Witness ==
    /\ ctx.prevKind = "ShowImage" /\ ctx.lastKind = "OpenWindow"
    /\ ctx.created = 1 /\ ctx.windows # << >> /\ ctx.gpu
    /\ ctx.phase = "run"

=============================================================================
